---- MODULE Spec2Model ----
(***************************************************************************)
(* Model of ToolManager (src/src/manager/tool-manager.ts): the tool        *)
(* mapping, the enabled set, the subscription set, the server name and the *)
(* public operations listTools, callTool, onEnabledToolsChanged,           *)
(* offEnabledToolsChanged and setMcpServerName, with the two dynamic       *)
(* discovery meta-tools the constructor registers.                         *)
(*                                                                         *)
(* A string is a sequence of atoms: <<"srv", "::", "echo">> is the string  *)
(* "srv::echo".  No atom contains ':' except "::" itself, and no atom ends *)
(* with a server name, so matching atom by atom finds the same occurrence  *)
(* of `${mcpServerName}::` as matching character by character.             *)
(***************************************************************************)
EXTENDS Integers, Sequences, FiniteSets, TLC

VARIABLES
  tools,                   \* Map<string, ToolCapability>, in insertion order
  enabledTools,            \* Set<string>, in insertion order
  enabledToolSubscriptions,\* Set of callbacks
  mcpServerName,           \* string
  toolsetConfig,           \* [mode |-> "readOnly" | "readWrite"]
  dynamicToolDiscovery,    \* [enabled |-> BOOLEAN, defaultEnabledToolsets |-> Seq(string)]
  last,                    \* what the last operation returned, threw and called
  running,                 \* the trigger handler that is executing, if any
  awaiting                 \* the trigger handlers suspended at an await, oldest first

vars == <<tools, enabledTools, enabledToolSubscriptions, mcpServerName,
          toolsetConfig, dynamicToolDiscovery, last, running, awaiting>>

config == <<tools, toolsetConfig, dynamicToolDiscovery>>

\* The trigger handlers in progress.  The operations below run each call to
\* its end in one step, the promise awaited; the steps of a handler whose
\* caller does not await it are further down.
handlers == <<running, awaiting>>

-----------------------------------------------------------------------------
(* Bounds and input universes *)

MaxDefault == 1     \* longest defaultEnabledToolsets list
MaxBatch == 2       \* longest toolsets batch of a trigger request

Sep == "::"
dynamicToolListName == <<"dynamic_tool_list">>
dynamicToolTriggerName == <<"dynamic_tool_trigger">>

Echo == <<"echo">>
Delete == <<"delete">>
Nonexistent == <<"nonexistent">>
Srv == <<"srv">>
Alt == <<"alt">>

ServerNames == {Srv, Alt}
Callbacks == {"cb1", "cb2"}
Modes == {"readOnly", "readWrite"}

\* The capabilities a caller can supply: echo is read-only, delete is not.
UserCapability(name) ==
  [definition |-> [name |-> name,
                   description |-> <<"about">> \o name,
                   readOnlyHint |-> (name = Echo)],
   handler |-> "user"]

NoDupSeqs(S, n) ==
  {s \in UNION {[1..k -> S] : k \in 0..n} :
     \A i, j \in 1..Len(s) : i # j => s[i] # s[j]}

\* The capability lists a registry is built from: the scenario's list
\* <<echo, delete>> and its sublists.
ToolLists == {<<>>, <<Echo>>, <<Delete>>, <<Echo, Delete>>}
DefaultLists == NoDupSeqs({Echo, Delete, Nonexistent}, MaxDefault)

-----------------------------------------------------------------------------
(* Strings *)

\* The first index at which pat occurs in s, 0 when it does not occur.
IndexOf(s, pat) ==
  LET hits == {i \in 1..(Len(s) - Len(pat) + 1) :
                 SubSeq(s, i, i + Len(pat) - 1) = pat}
  IN IF hits = {} THEN 0 ELSE CHOOSE i \in hits : \A j \in hits : i <= j

\* String.prototype.replace with a string pattern: the first occurrence only.
ReplaceFirst(s, pat, rep) ==
  LET i == IndexOf(s, pat)
  IN IF i = 0 THEN s
     ELSE SubSeq(s, 1, i - 1) \o rep \o SubSeq(s, i + Len(pat), Len(s))

\* Mutant of ToInternalWith: the name taken as it comes.
ToInternalUnstripped(server, name) == name

ToInternalWith(server, name) == ReplaceFirst(name, server \o <<Sep>>, <<>>)
ToExternalWith(server, name) == server \o <<Sep>> \o name
ToExternalDescriptionWith(server, description) ==
  <<"[">> \o server \o <<"]", " ">> \o description

toInternalToolName(name) == ToInternalWith(mcpServerName, name)
toExternalToolName(name) == ToExternalWith(mcpServerName, name)
toExternalToolDescription(description) ==
  ToExternalDescriptionWith(mcpServerName, description)

-----------------------------------------------------------------------------
(* Map and Set, both in insertion order *)

MapKeys(m) == [i \in 1..Len(m) |-> m[i].key]
MapKeySet(m) == {m[i].key : i \in 1..Len(m)}
MapHas(m, k) == k \in MapKeySet(m)
MapGet(m, k) == (CHOOSE i \in 1..Len(m) : m[i].key = k)
MapValue(m, k) == m[MapGet(m, k)].value
\* Map.set: a new key goes last, an existing key keeps its place.
MapSet(m, k, v) ==
  IF MapHas(m, k)
  THEN [i \in 1..Len(m) |-> IF m[i].key = k THEN [key |-> k, value |-> v] ELSE m[i]]
  ELSE Append(m, [key |-> k, value |-> v])

Elems(s) == {s[i] : i \in 1..Len(s)}
SetHas(s, x) == x \in Elems(s)
SetAdd(s, x) == IF SetHas(s, x) THEN s ELSE Append(s, x)
SetDelete(s, x) == SelectSeq(s, LAMBDA y : y # x)

RECURSIVE MapSetAll(_, _)
MapSetAll(m, caps) ==
  IF caps = <<>> THEN m
  ELSE MapSetAll(MapSet(m, Head(caps).definition.name, Head(caps)), Tail(caps))

RECURSIVE SetAddAll(_, _)
SetAddAll(s, xs) ==
  IF xs = <<>> THEN s ELSE SetAddAll(SetAdd(s, Head(xs)), Tail(xs))

-----------------------------------------------------------------------------
(* Construction *)

ListCapability ==
  [definition |-> [name |-> dynamicToolListName,
                   description |-> <<"List, enable, or disable available tools dynamically.">>,
                   readOnlyHint |-> TRUE],
   handler |-> "list"]

TriggerCapability ==
  [definition |-> [name |-> dynamicToolTriggerName,
                   description |-> <<"Enable or disable multiple toolsets.">>,
                   readOnlyHint |-> FALSE],
   handler |-> "trigger"]

\* this.toolsCapabilities.forEach(c => this.tools.set(c.definition.name, c))
SuppliedTools(toolsCapabilities) == MapSetAll(<<>>, toolsCapabilities)

\* Mutant of ConstructTools: the two meta-tools registered in any case.
ConstructToolsWithMetas(toolsCapabilities, dyn) ==
  MapSet(MapSet(MapSetAll(<<>>, toolsCapabilities),
                dynamicToolListName, ListCapability),
         dynamicToolTriggerName, TriggerCapability)

\* The tool mapping the constructor leaves: the supplied tools, then the two
\* meta-tools when dynamic discovery is on.
ConstructTools(toolsCapabilities, dyn) ==
  IF dyn.enabled
  THEN MapSet(MapSet(SuppliedTools(toolsCapabilities),
                     dynamicToolListName, ListCapability),
              dynamicToolTriggerName, TriggerCapability)
  ELSE SuppliedTools(toolsCapabilities)

\* Mutant of DefaultEnabled: the default names, without the test that each is
\* a tool.
DefaultEnabledUnchecked(supplied, dyn) ==
  SetAddAll(<<>>, dyn.defaultEnabledToolsets)

\* Dynamic discovery on: the default names that are tools.
DefaultEnabled(supplied, dyn) ==
  SetAddAll(<<>>, SelectSeq(dyn.defaultEnabledToolsets,
                            LAMBDA toolName : MapHas(supplied, toolName)))

\* Dynamic discovery off: the loop over this.tools with the mode test in it.
ModeEnabled(supplied, cfg) ==
  SetAddAll(<<>>, SelectSeq(MapKeys(supplied),
                            LAMBDA name : cfg.mode = "readOnly"))

\* Mutant of ConstructEnabled: the mode test of the other branch guards the
\* defaults too.
ConstructEnabledGated(toolsCapabilities, cfg, dyn) ==
  LET supplied == SuppliedTools(toolsCapabilities)
  IN IF dyn.enabled
     THEN SetAdd(SetAdd(IF cfg.mode = "readOnly"
                        THEN DefaultEnabled(supplied, dyn)
                        ELSE <<>>,
                        dynamicToolListName),
                 dynamicToolTriggerName)
     ELSE ModeEnabled(supplied, cfg)

\* The enabled set the constructor leaves.
ConstructEnabled(toolsCapabilities, cfg, dyn) ==
  LET supplied == SuppliedTools(toolsCapabilities)
  IN IF dyn.enabled
     THEN SetAdd(SetAdd(DefaultEnabled(supplied, dyn), dynamicToolListName),
                 dynamicToolTriggerName)
     ELSE ModeEnabled(supplied, cfg)

-----------------------------------------------------------------------------
(* Results *)

\* An McpError: its code, its message up to the colon, and what follows it.
NoError == [code |-> "none", message |-> "none", about |-> "none"]
UnknownTool ==
  [code |-> "MethodNotFound", message |-> "Unknown tool", about |-> "name"]
ToolNotEnabled ==
  [code |-> "MethodNotFound", message |-> "Tool not enabled", about |-> "name"]
MissingArguments ==
  [code |-> "InvalidParams", message |-> "Invalid parameters", about |-> "arguments"]
InvalidArguments ==
  [code |-> "InvalidParams", message |-> "Invalid parameters", about |-> "validation"]

NoCalls == [cb \in Callbacks |-> 0]

\* What an operation did: its name, the request it was given (a callTool's
\* name and the kind of its arguments), the error it threw, the handlers it
\* invoked, how often it called each callback and with what, and its result.
Outcome(op, request, error, invoked, notified, payload, result) ==
  [op |-> op, request |-> request, error |-> error, invoked |-> invoked,
   notified |-> notified, payload |-> payload, result |-> result]

Did(op, notified, payload, result) ==
  Outcome(op, <<>>, NoError, <<>>, notified, payload, result)

-----------------------------------------------------------------------------
(* listTools *)

Advertised(server, capability) ==
  [name |-> ToExternalWith(server, capability.definition.name),
   description |-> ToExternalDescriptionWith(server, capability.definition.description),
   readOnlyHint |-> capability.definition.readOnlyHint]

\* Mutant of ListToolsOf: the listing made by going through the enabled set.
ListToolsInEnabledOrder(m, enabled, server) ==
  LET shown == SelectSeq(enabled, LAMBDA k : MapHas(m, k))
  IN [tools |-> [i \in 1..Len(shown) |->
                   Advertised(server, MapValue(m, shown[i]))]]

\* Mutant of ListToolsOf: the listing without the filter on the enabled set.
ListToolsOfAll(m, enabled, server) ==
  [tools |-> [i \in 1..Len(m) |-> Advertised(server, m[i].value)]]

\* Array.from(this.tools).filter(([name]) => this.enabledTools.has(name)).map(...)
ListToolsOf(m, enabled, server) ==
  LET shown == SelectSeq(m, LAMBDA e : SetHas(enabled, e.key))
  IN [tools |-> [i \in 1..Len(shown) |-> Advertised(server, shown[i].value)]]

listTools == ListToolsOf(tools, enabledTools, mcpServerName)

ListedNames(listing) == {listing.tools[i].name : i \in 1..Len(listing.tools)}

\* The snapshot both meta-tools return.
SnapshotOf(m, enabled, server) ==
  [available |-> [i \in 1..Len(m) |-> ToExternalWith(server, m[i].key)],
   enabled |-> [i \in 1..Len(enabled) |-> ToExternalWith(server, enabled[i])]]

-----------------------------------------------------------------------------
(* The state after construction *)

Init ==
  \E toolNames \in ToolLists, mode \in Modes, on \in BOOLEAN,
     defaults \in DefaultLists, server \in {Srv} :
    LET caps == [i \in 1..Len(toolNames) |-> UserCapability(toolNames[i])]
        cfg == [mode |-> mode]
        dyn == [enabled |-> on, defaultEnabledToolsets |-> defaults]
    IN /\ mcpServerName = server
       /\ toolsetConfig = cfg
       /\ dynamicToolDiscovery = dyn
       /\ tools = ConstructTools(caps, dyn)
       /\ enabledTools = ConstructEnabled(caps, cfg, dyn)
       /\ enabledToolSubscriptions = {}
       /\ last = Did("constructor", NoCalls, <<>>, <<>>)
       /\ running = <<>>
       /\ awaiting = <<>>

-----------------------------------------------------------------------------
(* Requests *)

\* extra says whether the value is an object with a key no schema declares.
NullArguments ==
  [kind |-> "null", ok |-> FALSE, extra |-> FALSE, toolsets |-> <<>>]
\* An object without toolsets; ok says whether the user tools' schemas accept it.
ObjectArguments(ok) ==
  [kind |-> "object", ok |-> ok, extra |-> FALSE, toolsets |-> <<>>]
\* An object the user tools' schemas accept that has one more key.
ExtraArguments ==
  [kind |-> "object", ok |-> TRUE, extra |-> TRUE, toolsets |-> <<>>]
\* {toolsets: [...]}, which no user tool's schema accepts.
ToolsetsArguments(toolsets) ==
  [kind |-> "toolsets", ok |-> FALSE, extra |-> FALSE, toolsets |-> toolsets]

Toolset(name, trigger) == [name |-> name, trigger |-> trigger]

ToolsetEntries ==
  {Toolset(Srv \o <<Sep>> \o Echo, "enable"),
   Toolset(Echo, "disable"),
   Toolset(Delete, "enable"),
   Toolset(dynamicToolTriggerName, "disable"),
   Toolset(Nonexistent, "enable")}

Batches == UNION {[1..k -> ToolsetEntries] : k \in 0..MaxBatch}

PlainArguments ==
  {NullArguments, ObjectArguments(TRUE), ObjectArguments(FALSE), ExtraArguments}

RequestNames ==
  {Echo, Nonexistent,
   Srv \o <<Sep>> \o Echo,
   Alt \o <<Sep>> \o Delete,
   Echo \o Srv \o <<Sep>>,
   dynamicToolListName,
   dynamicToolTriggerName}

\* A toolsets batch is sent to the trigger meta-tool; to any other tool it is
\* one more object its schema judges.
BatchTargets == {dynamicToolTriggerName}

Requests ==
  (RequestNames \X PlainArguments)
    \cup (BatchTargets \X {ToolsetsArguments(b) : b \in Batches})

-----------------------------------------------------------------------------
(* callTool *)

\* The refinement of the trigger schema's name field.
RefineName(name) ==
  /\ MapHas(tools, toInternalToolName(name))
  /\ MapValue(tools, toInternalToolName(name)).definition.name
       = toInternalToolName(name)

\* inputSchema.safeParse(arguments).success, for arguments that are not null.
SafeParse(capability, arguments) ==
  CASE capability.handler = "user" -> arguments.kind = "object" /\ arguments.ok
    [] capability.handler = "list" -> TRUE
    [] capability.handler = "trigger" ->
         /\ arguments.kind = "toolsets"
         /\ \A i \in 1..Len(arguments.toolsets) :
              RefineName(arguments.toolsets[i].name)

\* validationResult.data: a zod object schema drops the keys it does not
\* declare from what it returns.
ParsedData(capability, arguments) == [arguments EXCEPT !.extra = FALSE]

\* Mutant of ApplyToolset: the enabled names counted, one more for each
\* enable and one less for each disable.
ApplyToolsetCounted(enabled, toolset) ==
  IF toolset.trigger = "enable"
  THEN Append(enabled, toInternalToolName(toolset.name))
  ELSE IF toolset.trigger = "disable"
  THEN ReplaceFirst(enabled, <<toInternalToolName(toolset.name)>>, <<>>)
  ELSE enabled

\* One turn of the trigger handler's loop.
ApplyToolset(enabled, toolset) ==
  IF toolset.trigger = "enable"
  THEN SetAdd(enabled, toInternalToolName(toolset.name))
  ELSE IF toolset.trigger = "disable"
  THEN SetDelete(enabled, toInternalToolName(toolset.name))
  ELSE enabled

\* Mutant of ApplyToolsets: the entries applied from the last to the first.
RECURSIVE ApplyToolsetsBackwards(_, _)
ApplyToolsetsBackwards(enabled, toolsets) ==
  IF toolsets = <<>> THEN enabled
  ELSE ApplyToolset(ApplyToolsetsBackwards(enabled, Tail(toolsets)),
                    Head(toolsets))

\* for (const { name, trigger } of toolsets) ...
RECURSIVE ApplyToolsets(_, _)
ApplyToolsets(enabled, toolsets) ==
  IF toolsets = <<>> THEN enabled
  ELSE ApplyToolsets(ApplyToolset(enabled, Head(toolsets)), Tail(toolsets))

\* notifyEnabledToolsChanged: how often each callback is called.
NotifyCounts(subscriptions) ==
  [cb \in Callbacks |-> IF cb \in subscriptions THEN 1 ELSE 0]

\* What a handler leaves: the enabled set, the calls to the callbacks, the
\* listing they were given and the handler's result.
Effect(enabled, notified, payload, result) ==
  [enabled |-> enabled, notified |-> notified, payload |-> payload,
   result |-> result]

UserHandler(capability, arguments) ==
  Effect(enabledTools, NoCalls, <<>>,
         <<[content |-> <<"text">> \o capability.definition.name]>>)

\* Mutant of ListHandler: the callbacks notified as by the trigger handler.
ListHandlerNotifying ==
  Effect(enabledTools, NotifyCounts(enabledToolSubscriptions),
         <<ListToolsOf(tools, enabledTools, mcpServerName)>>,
         <<SnapshotOf(tools, enabledTools, mcpServerName)>>)

ListHandler ==
  Effect(enabledTools, NoCalls, <<>>,
         <<SnapshotOf(tools, enabledTools, mcpServerName)>>)

\* Mutant of TriggerNotifyAndReturn: the listing for the callbacks taken
\* before the loop ran.
TriggerNotifyStale(after) ==
  Effect(after,
         NotifyCounts(enabledToolSubscriptions),
         <<ListToolsOf(tools, enabledTools, mcpServerName)>>,
         <<SnapshotOf(tools, after, mcpServerName)>>)

\* The trigger handler once its loop has left the enabled set `after`: it
\* notifies, awaits that, and returns the snapshot.
TriggerNotifyAndReturn(after) ==
  Effect(after,
         NotifyCounts(enabledToolSubscriptions),
         <<ListToolsOf(tools, after, mcpServerName)>>,
         <<SnapshotOf(tools, after, mcpServerName)>>)

\* Mutant of TriggerHandler: the notification inside the loop, once per entry.
TriggerHandlerPerEntry(params) ==
  LET after == ApplyToolsets(enabledTools, params.toolsets)
  IN Effect(after,
            [cb \in Callbacks |->
               IF cb \in enabledToolSubscriptions
               THEN Len(params.toolsets) ELSE 0],
            <<ListToolsOf(tools, after, mcpServerName)>>,
            <<SnapshotOf(tools, after, mcpServerName)>>)

TriggerHandler(params) ==
  TriggerNotifyAndReturn(ApplyToolsets(enabledTools, params.toolsets))

Handle(capability, arguments) ==
  CASE capability.handler = "user" -> UserHandler(capability, arguments)
    [] capability.handler = "list" -> ListHandler
    [] capability.handler = "trigger" -> TriggerHandler(arguments)

\* request.params of a callTool: its name and the kind of its arguments.
Request(name, arguments) == <<[name |-> name, kind |-> arguments.kind]>>

\* toolCapability.handler(request.params.arguments): the handler that ran and
\* the value it was given.
Invocation(toolName, arguments) == [tool |-> toolName, arguments |-> arguments]

\* Mutant of CallError: the handler run without the schema's verdict.
CallErrorUnvalidated(toolName, arguments) ==
  IF ~MapHas(tools, toolName) THEN UnknownTool
  ELSE IF ~SetHas(enabledTools, toolName) THEN ToolNotEnabled
  ELSE IF arguments.kind = "null" THEN MissingArguments
  ELSE NoError

\* Mutant of CallError: the schema asked before the test for null.
CallErrorValidationFirst(toolName, arguments) ==
  IF ~MapHas(tools, toolName) THEN UnknownTool
  ELSE IF ~SetHas(enabledTools, toolName) THEN ToolNotEnabled
  ELSE IF ~SafeParse(MapValue(tools, toolName), arguments) THEN InvalidArguments
  ELSE IF arguments.kind = "null" THEN MissingArguments
  ELSE NoError

\* Mutant of CallError: the test of the arguments ahead of the test of the
\* enabled set.
CallErrorArgumentsFirst(toolName, arguments) ==
  IF ~MapHas(tools, toolName) THEN UnknownTool
  ELSE IF arguments.kind = "null" THEN MissingArguments
  ELSE IF ~SetHas(enabledTools, toolName) THEN ToolNotEnabled
  ELSE IF ~SafeParse(MapValue(tools, toolName), arguments) THEN InvalidArguments
  ELSE NoError

\* The checks callTool makes before it runs the handler, in their order: the
\* error it throws, or NoError when the handler runs.
CallError(toolName, arguments) ==
  IF ~MapHas(tools, toolName) THEN UnknownTool
  ELSE IF ~SetHas(enabledTools, toolName) THEN ToolNotEnabled
  ELSE IF arguments.kind = "null" THEN MissingArguments
  ELSE IF ~SafeParse(MapValue(tools, toolName), arguments) THEN InvalidArguments
  ELSE NoError

-----------------------------------------------------------------------------
(* Operations *)

ListTools ==
  /\ last' = Did("listTools", NoCalls, <<>>, <<listTools>>)
  /\ UNCHANGED <<config, enabledTools, enabledToolSubscriptions, mcpServerName>>
  /\ UNCHANGED handlers

CallTool(name, arguments) ==
  \E toolName \in {toInternalToolName(name)} :
  \E error \in {CallError(toolName, arguments)} :
    /\ UNCHANGED <<config, enabledToolSubscriptions, mcpServerName, handlers>>
    /\ IF error # NoError
       THEN /\ enabledTools' = enabledTools
            /\ last' = Outcome("callTool", Request(name, arguments), error,
                               <<>>, NoCalls, <<>>, <<>>)
       ELSE \E e \in {Handle(MapValue(tools, toolName), arguments)} :
              /\ enabledTools' = e.enabled
              /\ last' = Outcome("callTool", Request(name, arguments), NoError,
                                 <<Invocation(toolName, arguments)>>,
                                 e.notified, e.payload, e.result)

OnEnabledToolsChanged(callback) ==
  /\ enabledToolSubscriptions' = enabledToolSubscriptions \cup {callback}
  /\ last' = Did("onEnabledToolsChanged", NoCalls, <<>>, <<>>)
  /\ UNCHANGED <<config, enabledTools, mcpServerName, handlers>>

OffEnabledToolsChanged(callback) ==
  /\ enabledToolSubscriptions' = enabledToolSubscriptions \ {callback}
  /\ last' = Did("offEnabledToolsChanged", NoCalls, <<>>, <<>>)
  /\ UNCHANGED <<config, enabledTools, mcpServerName, handlers>>

\* Mutant of SetMcpServerName: the callbacks notified before the name is set.
SetMcpServerNameNotifyingFirst(name) ==
  /\ mcpServerName' = name
  /\ last' = IF dynamicToolDiscovery.enabled
             THEN Did("setMcpServerName", NotifyCounts(enabledToolSubscriptions),
                      <<ListToolsOf(tools, enabledTools, mcpServerName)>>, <<>>)
             ELSE Did("setMcpServerName", NoCalls, <<>>, <<>>)
  /\ UNCHANGED <<config, enabledTools, enabledToolSubscriptions, handlers>>

SetMcpServerName(name) ==
  /\ mcpServerName' = name
  /\ last' = IF dynamicToolDiscovery.enabled
             THEN Did("setMcpServerName", NotifyCounts(enabledToolSubscriptions),
                      <<ListToolsOf(tools, enabledTools, name)>>, <<>>)
             ELSE Did("setMcpServerName", NoCalls, <<>>, <<>>)
  /\ UNCHANGED <<config, enabledTools, enabledToolSubscriptions, handlers>>

Next ==
  \/ ListTools
  \/ \E r \in Requests : CallTool(r[1], r[2])
  \/ \E cb \in Callbacks : OnEnabledToolsChanged(cb)
  \/ \E cb \in Callbacks : OffEnabledToolsChanged(cb)
  \/ \E name \in ServerNames : SetMcpServerName(name)

Spec == Init /\ [][Next]_vars

-----------------------------------------------------------------------------
(* Calls that are not awaited *)

\* callTool and the trigger handler are async functions.  JavaScript runs one
\* of them at a time, from where it starts or resumes to its next await or
\* to its end; a caller that does not await a call can start the next one
\* while the first is suspended.  The trigger handler is followed here step
\* by step: the turns of its loop (lines 116-122), the notification (line
\* 123) and the snapshot (lines 124-138).

MaxInFlight == 2    \* trigger handlers suspended at one time

\* Mutant of AwaitsAfter: one more await, in the body of the loop.
AwaitsAfterEachEntry == {"loop", "notify"}

\* The steps the handler awaits after: `await this.notifyEnabledToolsChanged()`.
AwaitsAfter == {"notify"}

\* The batches sent while other calls are in flight.
AsyncBatches ==
  {<<>>,
   <<Toolset(Echo, "enable")>>,
   <<Toolset(Echo, "disable")>>,
   <<Toolset(Echo, "enable"), Toolset(Delete, "enable")>>,
   <<Toolset(Delete, "disable"), Toolset(Echo, "disable")>>}

AsyncRequestNames == {Echo, dynamicToolListName}

\* One activation of the trigger handler: its toolsets, the entry its loop
\* is at, the step it is at, and (for the claims) the enabled set as its own
\* loop left it.
Activation(toolsets, next, pc, own) ==
  [toolsets |-> toolsets, next |-> next, pc |-> pc, own |-> own]

Idle == running = <<>>

\* The activation goes on, or is suspended behind the ones already waiting.
Proceed(step, activation) ==
  IF step \in AwaitsAfter
  THEN /\ running' = <<>>
       /\ awaiting' = Append(awaiting, activation)
  ELSE /\ running' = <<activation>>
       /\ awaiting' = awaiting

\* callTool on dynamic_tool_trigger up to line 220 and the handler's line 115.
StartTrigger(toolsets) ==
  /\ Idle
  /\ Len(awaiting) < MaxInFlight
  /\ CallError(dynamicToolTriggerName, ToolsetsArguments(toolsets)) = NoError
  /\ running' = <<IF toolsets = <<>>
                  THEN Activation(toolsets, 1, "notify", <<enabledTools>>)
                  ELSE Activation(toolsets, 1, "loop", <<>>)>>
  /\ last' = Did("start", NoCalls, <<>>, <<>>)
  /\ UNCHANGED <<config, enabledTools, enabledToolSubscriptions,
                 mcpServerName, awaiting>>

\* One turn of the loop.
LoopEntry ==
  /\ ~Idle
  /\ running[1].pc = "loop"
  /\ \E f \in {running[1]} :
     \E after \in {ApplyToolset(enabledTools, f.toolsets[f.next])} :
       /\ enabledTools' = after
       /\ Proceed("loop",
                  IF f.next = Len(f.toolsets)
                  THEN Activation(f.toolsets, f.next + 1, "notify", <<after>>)
                  ELSE Activation(f.toolsets, f.next + 1, "loop", <<>>))
  /\ last' = Did("entry", NoCalls, <<>>, <<>>)
  /\ UNCHANGED <<config, enabledToolSubscriptions, mcpServerName>>

\* this.notifyEnabledToolsChanged(), and the await of what it returned.
Notify ==
  /\ ~Idle
  /\ running[1].pc = "notify"
  /\ Proceed("notify", [running[1] EXCEPT !.pc = "snapshot"])
  /\ last' = Did("notify", NotifyCounts(enabledToolSubscriptions),
                 <<listTools>>, <<>>)
  /\ UNCHANGED <<config, enabledTools, enabledToolSubscriptions, mcpServerName>>

\* The oldest suspended activation resumes.
Resume ==
  /\ Idle
  /\ awaiting # <<>>
  /\ running' = <<Head(awaiting)>>
  /\ awaiting' = Tail(awaiting)
  /\ last' = Did("resume", NoCalls, <<>>, <<>>)
  /\ UNCHANGED <<config, enabledTools, enabledToolSubscriptions, mcpServerName>>

\* The handler builds its snapshot and returns it.
Return ==
  /\ ~Idle
  /\ running[1].pc = "snapshot"
  /\ running' = <<>>
  /\ last' = Did("return", NoCalls, <<>>,
                 <<SnapshotOf(tools, enabledTools, mcpServerName)>>)
  /\ UNCHANGED <<config, enabledTools, enabledToolSubscriptions,
                 mcpServerName, awaiting>>

\* The registry of the scenario: echo and delete, dynamic discovery on.
InitAsync ==
  /\ Init
  /\ dynamicToolDiscovery.enabled
  /\ dynamicToolDiscovery.defaultEnabledToolsets = <<>>
  /\ toolsetConfig.mode = "readWrite"
  /\ MapKeys(tools) =
       <<Echo, Delete, dynamicToolListName, dynamicToolTriggerName>>

NextAsync ==
  \/ \E toolsets \in AsyncBatches : StartTrigger(toolsets)
  \/ LoopEntry
  \/ Notify
  \/ Resume
  \/ Return
  \/ Idle /\ ListTools
  \/ Idle /\ \E name \in AsyncRequestNames : CallTool(name, ObjectArguments(TRUE))
  \/ Idle /\ OnEnabledToolsChanged("cb1")

SpecAsync == InitAsync /\ [][NextAsync]_vars

-----------------------------------------------------------------------------
(* The McpServer variant *)

\* McpServer (src/unnamed/part_000) keeps its own registry: `tools`, a
\* plain object from names to {definitions, handlers}, and `enabledTools`,
\* with the administrative methods addTool, removeTool, enableTool and
\* disableTool and its own dynamic_tool_trigger handler.  Names are the plain
\* ones above, none of them a property every object inherits.

\* What reading or writing a property of `undefined` throws.
TypeError ==
  [code |-> "TypeError", message |-> "property of undefined", about |-> "name"]

ToolDefinition(name) ==
  [name |-> name,
   description |-> <<"about">> \o name,
   readOnlyHint |-> (name = Echo)]

McpNames == {Echo, Delete, Nonexistent}

\* this.tools[toolName].definitions.annotations?.readOnlyHint === true in
\* mode readOnly, true otherwise; m has the key.
toolCanBeEnabled(m, toolName, cfg) ==
  IF cfg.mode = "readOnly"
  THEN MapValue(m, toolName).definitions.readOnlyHint = TRUE
  ELSE TRUE

Registry(m, enabled, error) ==
  [tools |-> m, enabledTools |-> enabled, error |-> error]

\* enableTool and disableTool: nothing for a name that is no key.
enableTool(m, enabled, name) ==
  IF MapHas(m, name) THEN SetAdd(enabled, name) ELSE enabled
disableTool(m, enabled, name) ==
  IF MapHas(m, name) THEN SetDelete(enabled, name) ELSE enabled

\* addTool: `this.tools[definition.name].definitions = definition` comes
\* first, and throws when this.tools has no such key.
addTool(m, enabled, cfg, definition, handler) ==
  IF ~MapHas(m, definition.name)
  THEN Registry(m, enabled, TypeError)
  ELSE \* the entry is there: its two fields are overwritten
       LET stored == MapSet(m, definition.name,
                            [definitions |-> definition, handlers |-> handler])
       IN Registry(stored,
                   IF toolCanBeEnabled(stored, definition.name, cfg)
                   THEN enableTool(stored, enabled, definition.name)
                   ELSE enabled,
                   NoError)

\* removeTool: `this.tools[name].definitions` is read first, and throws when
\* this.tools has no such key.
removeTool(m, enabled, name) ==
  IF ~MapHas(m, name)
  THEN Registry(m, enabled, TypeError)
  ELSE Registry(SelectSeq(m, LAMBDA e : e.key # name),
                disableTool(m, enabled, name),
                NoError)

\* initTools: addTool for each entry of capabilities.tools, up to the first
\* that throws.
RECURSIVE initTools(_, _, _, _)
initTools(m, enabled, cfg, names) ==
  IF names = <<>> THEN Registry(m, enabled, NoError)
  ELSE LET r == addTool(m, enabled, cfg, ToolDefinition(Head(names)), "user")
       IN IF r.error # NoError THEN r
          ELSE initTools(r.tools, r.enabledTools, cfg, Tail(names))

\* The loop of McpServer's dynamic_tool_trigger handler: each name as given.
RECURSIVE TriggerLoop(_, _)
TriggerLoop(enabled, toolsets) ==
  IF toolsets = <<>> THEN enabled
  ELSE TriggerLoop(IF Head(toolsets).trigger = "enable"
                   THEN SetAdd(enabled, Head(toolsets).name)
                   ELSE IF Head(toolsets).trigger = "disable"
                   THEN SetDelete(enabled, Head(toolsets).name)
                   ELSE enabled,
                   Tail(toolsets))

McpToolsets ==
  UNION {[1..k -> {Toolset(n, t) : n \in McpNames, t \in {"enable", "disable"}}] :
           k \in 0..MaxBatch}

\* new McpServer({capabilities: {tools}, toolsetConfig}): initTools runs
\* first.  The loop over the default names that follows it adds only names
\* that capabilities.tools holds, and is reached only when initTools threw
\* nothing.
InitMcpServer ==
  \E names \in ToolLists, mode \in Modes :
  \E r \in {initTools(<<>>, <<>>, [mode |-> mode], names)} :
    /\ toolsetConfig = [mode |-> mode]
    /\ tools = r.tools
    /\ enabledTools = r.enabledTools
    /\ last = Outcome("constructor", <<[tools |-> names]>>, r.error,
                      <<>>, NoCalls, <<>>, <<>>)
    /\ dynamicToolDiscovery = [enabled |-> FALSE, defaultEnabledToolsets |-> <<>>]
    /\ enabledToolSubscriptions = {}
    /\ mcpServerName = Srv
    /\ running = <<>>
    /\ awaiting = <<>>

\* There is a server: its constructor returned.
Constructed == ~(last.op = "constructor" /\ last.error # NoError)

\* What the administrative methods leave alone.
mcpFrame ==
  <<toolsetConfig, dynamicToolDiscovery, enabledToolSubscriptions,
    mcpServerName, handlers>>

Administered(op, name, r) ==
  /\ tools' = r.tools
  /\ enabledTools' = r.enabledTools
  /\ last' = Outcome(op, <<[name |-> name]>>, r.error, <<>>, NoCalls, <<>>, <<>>)
  /\ UNCHANGED mcpFrame

AddTool(name) ==
  /\ Constructed
  /\ Administered("addTool", name,
                  addTool(tools, enabledTools, toolsetConfig,
                          ToolDefinition(name), "user"))

RemoveTool(name) ==
  /\ Constructed
  /\ Administered("removeTool", name, removeTool(tools, enabledTools, name))

EnableTool(name) ==
  /\ Constructed
  /\ Administered("enableTool", name,
                  Registry(tools, enableTool(tools, enabledTools, name), NoError))

DisableTool(name) ==
  /\ Constructed
  /\ Administered("disableTool", name,
                  Registry(tools, disableTool(tools, enabledTools, name), NoError))

\* The dynamic_tool_trigger handler of initDynamicTooDiscovery, called with
\* {toolsets}.
InvokeTrigger(toolsets) ==
  /\ Constructed
  /\ \E after \in {TriggerLoop(enabledTools, toolsets)} :
       /\ enabledTools' = after
       /\ last' = Outcome("trigger", <<>>, NoError,
                          <<Invocation(dynamicToolTriggerName,
                                       ToolsetsArguments(toolsets))>>,
                          NoCalls, <<>>,
                          <<[available |-> MapKeys(tools), enabled |-> after]>>)
  /\ UNCHANGED <<tools, mcpFrame>>

NextMcpServer ==
  \/ \E name \in McpNames : AddTool(name)
  \/ \E name \in McpNames : RemoveTool(name)
  \/ \E name \in McpNames : EnableTool(name)
  \/ \E name \in McpNames : DisableTool(name)
  \/ \E toolsets \in McpToolsets : InvokeTrigger(toolsets)

SpecMcpServer == InitMcpServer /\ [][NextMcpServer]_vars

-----------------------------------------------------------------------------
(* Vocabulary of the claims *)

Metas == {dynamicToolListName, dynamicToolTriggerName}
EnabledSet == Elems(enabledTools)
External(names) == {toExternalToolName(n) : n \in names}

\* This step is a callTool; Called is the same of the step that led here.
Calls == last'.op = "callTool"
Called == last.op = "callTool"
\* The name this step's request carries, and the tool the registry resolves
\* it to.
CallName == last'.request[1].name
CallTarget == toInternalToolName(CallName)

\* The last operation was a call that ran the handler of tool t.
Ran(t) ==
  /\ Called
  /\ last.error = NoError
  /\ Len(last.invoked) = 1
  /\ last.invoked[1].tool = t

\* This step is a trigger call that ran, and the batch it was given.
Triggers ==
  /\ Calls
  /\ last'.error = NoError
  /\ Len(last'.invoked) = 1
  /\ last'.invoked[1].tool = dynamicToolTriggerName
Batch == last'.invoked[1].arguments.toolsets

\* Removing the server prefix from a name that starts with it.
StripServerPrefix(name) ==
  LET prefix == mcpServerName \o <<Sep>>
  IN IF Len(name) >= Len(prefix) /\ SubSeq(name, 1, Len(prefix)) = prefix
     THEN SubSeq(name, Len(prefix) + 1, Len(name))
     ELSE name

\* The entries of batch b that name tool k, by the registry's resolution.
Naming(b, k) == {i \in 1..Len(b) : toInternalToolName(b[i].name) = k}
Latest(S) == CHOOSE i \in S : \A j \in S : j <= i

-----------------------------------------------------------------------------
(* C1 *)

\* C1: callTool on a name that resolves to a tool of the mapping that is not
\* in the enabled set throws 'Tool not enabled', an error that differs from
\* 'Unknown tool', whatever the arguments (null and schema-invalid ones
\* included), and runs no handler.
C1_DisabledToolNotEnabled ==
  [][(/\ Calls
      /\ MapHas(tools, CallTarget)
      /\ ~SetHas(enabledTools, CallTarget))
     => (/\ last'.error = ToolNotEnabled
         /\ last'.error # UnknownTool
         /\ last'.invoked = <<>>)]_vars

C1_Witness ==
  /\ Called
  /\ last.error = ToolNotEnabled
  /\ last.request[1].kind = "null"
  /\ MapHas(tools, toInternalToolName(last.request[1].name))
  /\ ~SetHas(enabledTools, toInternalToolName(last.request[1].name))

-----------------------------------------------------------------------------
(* C2 *)

\* C2: callTool on a name that, once the server prefix is stripped, is no key
\* of the tool mapping throws 'Unknown tool', whatever the arguments, runs no
\* handler and leaves the enabled set as it was.
C2_UnknownToolRejected ==
  [][(Calls /\ ~MapHas(tools, StripServerPrefix(CallName)))
     => (/\ last'.error = UnknownTool
         /\ last'.invoked = <<>>
         /\ enabledTools' = enabledTools)]_vars

-----------------------------------------------------------------------------
(* C3 *)

\* C3: in every state the tools listTools() returns are exactly the enabled
\* ones, under their external names, and a listTools() call returns that
\* listing: no disabled tool is in it and every enabled tool is.
C3_ListIsEnabledSet ==
  /\ ListedNames(listTools) = External(EnabledSet)
  /\ last.op = "listTools" =>
       ListedNames(last.result[1]) = External(EnabledSet)

C3_Witness ==
  /\ last.op = "listTools"
  /\ SetHas(enabledTools, Delete)
  /\ MapHas(tools, Echo) /\ ~SetHas(enabledTools, Echo)
  /\ Echo \in Elems(dynamicToolDiscovery.defaultEnabledToolsets)

-----------------------------------------------------------------------------
(* C4 *)

\* C4: in every state the enabled set is a subset of the tool mapping's keys.
C4_EnabledSubsetOfTools == EnabledSet \subseteq MapKeySet(tools)

C4_Witness ==
  /\ Nonexistent \in Elems(dynamicToolDiscovery.defaultEnabledToolsets)
  /\ dynamicToolDiscovery.enabled
  /\ Ran(dynamicToolTriggerName)
  /\ Len(last.invoked[1].arguments.toolsets) > 0

-----------------------------------------------------------------------------
(* C5 *)

\* C5: with dynamic discovery on, dynamic_tool_list and dynamic_tool_trigger
\* are keys of the tool mapping and are in the enabled set in every state.
C5_MetaToolsAlwaysEnabled ==
  dynamicToolDiscovery.enabled =>
    /\ Metas \subseteq MapKeySet(tools)
    /\ Metas \subseteq EnabledSet

-----------------------------------------------------------------------------
(* C6 *)

ReadOnlyTools ==
  {k \in MapKeySet(tools) : MapValue(tools, k).definition.readOnlyHint = TRUE}

\* C6: constructed with dynamic discovery off, the enabled set is the tools
\* with readOnlyHint true in mode readOnly and every tool in mode readWrite.
C6_ModeGateAtConstruction ==
  (last.op = "constructor" /\ ~dynamicToolDiscovery.enabled) =>
    EnabledSet = IF toolsetConfig.mode = "readOnly"
                 THEN ReadOnlyTools
                 ELSE MapKeySet(tools)

-----------------------------------------------------------------------------
(* C7 *)

\* A trigger call with batch b that ran: every tool its entry i enables, with
\* no later entry of b disabling it, is enabled and listed afterwards.
EnablesListed(b) ==
  \A i \in 1..Len(b) :
    LET k == toInternalToolName(b[i].name)
    IN (/\ b[i].trigger = "enable"
        /\ MapHas(tools, k)
        /\ \A j \in Naming(b, k) : j > i => b[j].trigger = "enable")
       => (/\ SetHas(enabledTools', k)
           /\ toExternalToolName(k) \in
                ListedNames(ListToolsOf(tools', enabledTools', mcpServerName')))

\* C7: constructed with dynamic discovery on, the enabled set is the default
\* names that are supplied tools plus the two meta-tools, in either mode; and
\* a trigger call that enables an existing tool adds it to the enabled set and
\* to the next listing.
C7_DynamicConstruction ==
  /\ []((last.op = "constructor" /\ dynamicToolDiscovery.enabled) =>
          EnabledSet =
            (Elems(dynamicToolDiscovery.defaultEnabledToolsets)
               \cap (MapKeySet(tools) \ Metas)) \cup Metas)
  /\ [][Triggers => EnablesListed(Batch)]_vars

C7_Witness ==
  /\ dynamicToolDiscovery.enabled
  /\ toolsetConfig.mode = "readWrite"
  /\ dynamicToolDiscovery.defaultEnabledToolsets = <<Echo>>
  /\ MapKeys(tools) = <<Echo, Delete, dynamicToolListName, dynamicToolTriggerName>>
  /\ Ran(dynamicToolTriggerName)
  /\ last.invoked[1].arguments.toolsets = <<Toolset(Delete, "enable")>>
  /\ enabledTools = <<Echo, dynamicToolListName, dynamicToolTriggerName, Delete>>

-----------------------------------------------------------------------------
(* C8 *)

\* C8: with dynamic discovery on, a request to dynamic_tool_trigger whose
\* batch holds a name that resolves to no key of the tool mapping throws
\* InvalidParams, leaves the enabled set as it was and calls no callback.
C8_BadBatchRejected ==
  [][\A b \in Batches :
       (/\ dynamicToolDiscovery.enabled
        /\ \E i \in 1..Len(b) : ~MapHas(tools, toInternalToolName(b[i].name))
        /\ CallTool(dynamicToolTriggerName, ToolsetsArguments(b)))
       => (/\ last'.error.code = "InvalidParams"
           /\ enabledTools' = enabledTools
           /\ last'.notified = NoCalls)]_vars

-----------------------------------------------------------------------------
(* C9 *)

\* C9: after a trigger call that ran, a tool the batch names is enabled
\* exactly when the last entry naming it says enable, and a tool the batch
\* does not name is enabled exactly when it was before.
C9_LastEntryWins ==
  [][Triggers =>
       \A k \in MapKeySet(tools) \cup EnabledSet \cup Elems(enabledTools') :
         IF Naming(Batch, k) # {}
         THEN SetHas(enabledTools', k)
                <=> (Batch[Latest(Naming(Batch, k))].trigger = "enable")
         ELSE SetHas(enabledTools', k) <=> SetHas(enabledTools, k)]_vars

C9_Witness ==
  /\ Ran(dynamicToolTriggerName)
  /\ last.invoked[1].arguments.toolsets =
       <<Toolset(Echo, "disable"), Toolset(Srv \o <<Sep>> \o Echo, "enable")>>
  /\ SetHas(enabledTools, Echo)
  /\ SetHas(enabledTools, Delete)

-----------------------------------------------------------------------------
(* C10 *)

\* C10: a trigger call that ran called every subscribed callback once and no
\* other callback, whatever the length of its batch, and gave them the
\* listing of the enabled set the whole batch left.
C10_NotifiedOncePerBatch ==
  [][Triggers =>
       /\ \A cb \in Callbacks :
            last'.notified[cb] = IF cb \in enabledToolSubscriptions THEN 1 ELSE 0
       /\ last'.payload = <<ListToolsOf(tools, enabledTools', mcpServerName)>>]_vars

C10_Witness ==
  /\ Ran(dynamicToolTriggerName)
  /\ Len(last.invoked[1].arguments.toolsets) = 2
  /\ enabledToolSubscriptions = {"cb1"}
  /\ last.notified["cb1"] = 1
  /\ last.notified["cb2"] = 0

-----------------------------------------------------------------------------
(* C11 *)

\* Every entry of batch b asks for what its tool already is.
AlreadySo(b) ==
  \A i \in 1..Len(b) :
    (b[i].trigger = "enable")
      <=> SetHas(enabledTools, toInternalToolName(b[i].name))

\* Batch b enables a tool that is enabled already and then disables it.
EnablesAgainThenDisables(b, k) ==
  /\ Len(b) = 2
  /\ Naming(b, k) = {1, 2}
  /\ b[1].trigger = "enable"
  /\ b[2].trigger = "disable"
  /\ SetHas(enabledTools, k)

\* C11: a trigger call whose entries enable only enabled tools and disable
\* only disabled ones leaves the enabled set as it was; a tool enabled twice
\* and disabled once is disabled, in one call's batch after an earlier enable
\* and in the handler's loop run over enable, enable, disable.
C11_EnableDisableIdempotent ==
  /\ [][(Triggers /\ AlreadySo(Batch)) => enabledTools' = enabledTools]_vars
  /\ [][Triggers =>
          \A k \in MapKeySet(tools) :
            EnablesAgainThenDisables(Batch, k) => ~SetHas(enabledTools', k)]_vars
  /\ [](\A k \in MapKeySet(tools) :
          ~SetHas(ApplyToolsets(enabledTools,
                                <<Toolset(k, "enable"), Toolset(k, "enable"),
                                  Toolset(k, "disable")>>), k))

C11_Witness ==
  /\ Ran(dynamicToolTriggerName)
  /\ last.invoked[1].arguments.toolsets =
       <<Toolset(Srv \o <<Sep>> \o Echo, "enable"), Toolset(Echo, "disable")>>
  /\ dynamicToolDiscovery.defaultEnabledToolsets = <<Echo>>
  /\ MapHas(tools, Echo)
  /\ enabledTools = <<dynamicToolListName, dynamicToolTriggerName>>

-----------------------------------------------------------------------------
(* C12 *)

\* C12: a callTool runs at most one handler, and runs it exactly when it
\* throws nothing; the handler that runs is the one the name resolves to, of
\* a tool that is a key of the mapping and enabled, with arguments that are
\* not null and that its schema accepts; a call that throws ran no handler,
\* called no callback, returned nothing and left the mapping, the enabled set
\* and the subscriptions as they were.
C12_NoPartialApplication ==
  [][Calls =>
       /\ Len(last'.invoked) <= 1
       /\ (last'.error = NoError) <=> (Len(last'.invoked) = 1)
       /\ last'.invoked # <<>> =>
            /\ last'.invoked[1].tool = CallTarget
            /\ MapHas(tools, CallTarget)
            /\ SetHas(enabledTools, CallTarget)
            /\ last'.invoked[1].arguments.kind # "null"
            /\ SafeParse(MapValue(tools, CallTarget), last'.invoked[1].arguments)
       /\ last'.error # NoError =>
            /\ last'.invoked = <<>>
            /\ last'.notified = NoCalls
            /\ last'.result = <<>>
            /\ UNCHANGED <<tools, enabledTools, enabledToolSubscriptions>>]_vars

C12_Witness ==
  /\ Called
  /\ last.error = InvalidArguments
  /\ last.invoked = <<>>
  /\ last.request[1].name = dynamicToolTriggerName
  /\ last.request[1].kind = "toolsets"
  /\ SetHas(enabledTools, dynamicToolTriggerName)
  /\ enabledToolSubscriptions # {}

-----------------------------------------------------------------------------
(* C13 *)

\* C13: callTool with null or absent arguments on a name that resolves to an
\* enabled tool of the mapping throws InvalidParams for the arguments, not
\* for a verdict of the schema, and runs no handler.
C13_NullArgumentsRejected ==
  [][(/\ Calls
      /\ last'.request[1].kind = "null"
      /\ MapHas(tools, CallTarget)
      /\ SetHas(enabledTools, CallTarget))
     => (/\ last'.error = MissingArguments
         /\ last'.error.code = "InvalidParams"
         /\ last'.invoked = <<>>
         /\ enabledTools' = enabledTools)]_vars

C13_Witness ==
  /\ Called
  /\ last.request[1].kind = "null"
  /\ last.request[1].name = Srv \o <<Sep>> \o Echo
  /\ mcpServerName = Srv
  /\ SetHas(enabledTools, Echo)
  /\ last.error = MissingArguments

-----------------------------------------------------------------------------
(* C14 *)

\* C14: the value a trigger call that ran gives the callbacks is what
\* listTools() returns in the state the call leaves, with the whole batch
\* applied; when the batch changed the listing it is not the listing of the
\* state before.
C14_NotifiedWithFreshListing ==
  [][Triggers =>
       /\ last'.payload =
            <<ListToolsOf(tools', enabledTools', mcpServerName')>>
       /\ ListToolsOf(tools', enabledTools', mcpServerName') # listTools
            => last'.payload # <<listTools>>]_vars

C14_Witness ==
  /\ Ran(dynamicToolTriggerName)
  /\ last.invoked[1].arguments.toolsets =
       <<Toolset(Echo, "disable"), Toolset(Delete, "enable")>>
  /\ dynamicToolDiscovery.defaultEnabledToolsets = <<Echo>>
  /\ enabledToolSubscriptions = Callbacks
  /\ \A cb \in Callbacks : last.notified[cb] = 1
  /\ last.payload = <<listTools>>
  /\ toExternalToolName(Delete) \in ListedNames(last.payload[1])
  /\ toExternalToolName(Echo) \notin ListedNames(last.payload[1])

-----------------------------------------------------------------------------
(* C15 *)

\* The steps that read the enabled set for someone: listTools, callTool's
\* tests and the list meta-tool's snapshot, the start of a trigger call, and
\* the notification of the callbacks.
ObserverOps == {"listTools", "callTool", "start", "notify"}

\* An activation whose loop has applied some entries of its batch, not all.
PartlyApplied(f) == f.pc = "loop" /\ f.next > 1

\* C15: with trigger calls in flight that interleave at their awaits, no
\* listTools, callTool, list snapshot or notification of the callbacks runs
\* in a state where a batch is applied in part.
C15_NoPartialBatchObserved ==
  [][last'.op \in ObserverOps =>
       \A f \in Elems(running) \cup Elems(awaiting) : ~PartlyApplied(f)]_vars

C15_Witness ==
  /\ last.op = "listTools"
  /\ Len(awaiting) = MaxInFlight
  /\ awaiting[1].toolsets = <<Toolset(Echo, "enable"), Toolset(Delete, "enable")>>
  /\ awaiting[2].toolsets = <<Toolset(Delete, "disable"), Toolset(Echo, "disable")>>
  /\ enabledToolSubscriptions = {"cb1"}
  /\ ListedNames(last.result[1]) = External(Metas)

-----------------------------------------------------------------------------
(* C16 *)

\* C16: the snapshot a trigger call returns has every key of the mapping as
\* available and, as enabled, the enabled set as the call's own loop left
\* it, other trigger calls in flight or not.
C16_SnapshotOfOwnBatch ==
  [][last'.op = "return" =>
       last'.result =
         <<SnapshotOf(tools, running[1].own[1], mcpServerName)>>]_vars

-----------------------------------------------------------------------------
(* C17 *)

\* C17: a callTool that throws nothing gave the handler what the schema
\* returned for the request's arguments, and returns what the handler
\* returned for that value.
C17_HandlerGetsValidated ==
  [][\A r \in Requests :
       (CallTool(r[1], r[2]) /\ last'.error = NoError)
       => \E capability \in {MapValue(tools, toInternalToolName(r[1]))} :
            /\ last'.invoked =
                 <<Invocation(toInternalToolName(r[1]),
                              ParsedData(capability, r[2]))>>
            /\ last'.result =
                 Handle(capability, ParsedData(capability, r[2])).result]_vars

-----------------------------------------------------------------------------
(* C18 *)

\* This step is a listTools() or a callTool of dynamic_tool_list.
ListsTools == last'.op = "listTools"
CallsList == Calls /\ CallTarget = dynamicToolListName

\* C18: listTools() and a callTool of dynamic_tool_list leave the mapping,
\* the enabled set and the subscriptions as they were and call no callback;
\* what they return is the listing, or the snapshot, of the state they are
\* called in, so the same call made again at once returns the same.
C18_ReadOnlyOperations ==
  /\ [][(ListsTools \/ CallsList) =>
          /\ UNCHANGED <<tools, enabledTools, enabledToolSubscriptions>>
          /\ last'.notified = NoCalls
          /\ last'.payload = <<>>]_vars
  /\ [][ListsTools => last'.result = <<listTools>>]_vars
  /\ [][(CallsList /\ last'.error = NoError) =>
          last'.result = <<SnapshotOf(tools, enabledTools, mcpServerName)>>]_vars
  /\ [][(last.op = "listTools" /\ ListsTools) => last'.result = last.result]_vars
  /\ [][(Ran(dynamicToolListName) /\ CallsList /\ last'.error = NoError) =>
          last'.result = last.result]_vars

C18_Witness ==
  /\ Ran(dynamicToolListName)
  /\ enabledToolSubscriptions = Callbacks
  /\ last.notified = NoCalls
  /\ last.result = <<SnapshotOf(tools, enabledTools, mcpServerName)>>
  /\ SetHas(enabledTools, Delete)
  /\ MapHas(tools, Echo) /\ ~SetHas(enabledTools, Echo)

-----------------------------------------------------------------------------
(* C19 *)

ListedOrder(listing) == [i \in 1..Len(listing.tools) |-> listing.tools[i].name]
Reverse(s) == [i \in 1..Len(s) |-> s[Len(s) + 1 - i]]
\* The keys of the mapping that are enabled, in the mapping's order, under
\* their external names.
EnabledInMappingOrder ==
  LET keys == SelectSeq(MapKeys(tools), LAMBDA k : k \in EnabledSet)
  IN [i \in 1..Len(keys) |-> toExternalToolName(keys[i])]

\* C19: listTools() names the enabled tools in the insertion order of the
\* mapping; the order in which they were enabled does not show: the enabled
\* set taken in the opposite order gives the same listing.
C19_ListingInMappingOrder ==
  /\ ListedOrder(listTools) = EnabledInMappingOrder
  /\ ListToolsOf(tools, Reverse(enabledTools), mcpServerName) = listTools
  /\ last.op = "listTools" =>
       ListedOrder(last.result[1]) = EnabledInMappingOrder

C19_Witness ==
  /\ last.op = "listTools"
  /\ mcpServerName = Srv
  /\ MapKeys(tools) =
       <<Echo, Delete, dynamicToolListName, dynamicToolTriggerName>>
  /\ enabledTools =
       <<dynamicToolListName, dynamicToolTriggerName, Delete, Echo>>
  /\ ListedOrder(last.result[1]) =
       <<Srv \o <<Sep>> \o Echo, Srv \o <<Sep>> \o Delete,
         Srv \o <<Sep>> \o dynamicToolListName,
         Srv \o <<Sep>> \o dynamicToolTriggerName>>

-----------------------------------------------------------------------------
(* C20 *)

\* C20: every name listTools() returns resolves, in the same state, to the
\* enabled tool it was made from, so that callTool on it throws neither
\* 'Unknown tool' nor 'Tool not enabled' whatever the arguments; every name
\* the snapshot shows as available passes the trigger schema's test of a
\* toolsets name; and a callTool on a listed name runs, if any, the handler
\* of the tool listed under that name.
C20_NameRoundTrip ==
  /\ [](\A i \in 1..Len(listTools.tools) :
          \E k \in {toInternalToolName(listTools.tools[i].name)} :
            /\ MapHas(tools, k)
            /\ SetHas(enabledTools, k)
            /\ Advertised(mcpServerName, MapValue(tools, k)) = listTools.tools[i]
            /\ \A arguments \in PlainArguments :
                 CallError(k, arguments) \notin {UnknownTool, ToolNotEnabled})
  /\ [](\A n \in Elems(SnapshotOf(tools, enabledTools, mcpServerName).available) :
          /\ RefineName(n)
          /\ toExternalToolName(toInternalToolName(n)) = n)
  /\ [][(Calls /\ CallName \in ListedNames(listTools)) =>
          /\ last'.error \notin {UnknownTool, ToolNotEnabled}
          /\ last'.invoked # <<>> =>
               toExternalToolName(last'.invoked[1].tool) = CallName]_vars

C20_Witness ==
  /\ Ran(Delete)
  /\ mcpServerName = Alt
  /\ last.request[1].name = Alt \o <<Sep>> \o Delete
  /\ last.request[1].name \in ListedNames(listTools)
  /\ dynamicToolDiscovery.enabled
  /\ Alt \o <<Sep>> \o Echo \in
       Elems(SnapshotOf(tools, enabledTools, mcpServerName).available)

-----------------------------------------------------------------------------
(* C21 *)

\* C21: with dynamic discovery off, neither meta-tool is a key of the
\* mapping and a callTool of either throws 'Unknown tool'; no operation
\* changes the enabled set, which stays the one the constructor's loop over
\* the tools made.
C21_StaticWithoutDiscovery ==
  /\ [](~dynamicToolDiscovery.enabled =>
          /\ Metas \cap MapKeySet(tools) = {}
          /\ enabledTools = ModeEnabled(tools, toolsetConfig))
  /\ [][(~dynamicToolDiscovery.enabled /\ Calls /\ CallTarget \in Metas) =>
          /\ last'.error = UnknownTool
          /\ last'.invoked = <<>>]_vars
  /\ [][~dynamicToolDiscovery.enabled => enabledTools' = enabledTools]_vars

C21_Witness ==
  /\ ~dynamicToolDiscovery.enabled
  /\ Called
  /\ last.request[1].name = dynamicToolTriggerName
  /\ last.request[1].kind = "toolsets"
  /\ last.error = UnknownTool
  /\ toolsetConfig.mode = "readOnly"
  /\ enabledTools = <<Echo, Delete>>

-----------------------------------------------------------------------------
(* C24 *)

\* C24: setMcpServerName leaves the mapping, the enabled set and the
\* subscriptions as they were; with dynamic discovery on it calls every
\* subscribed callback once, and no other, with the listing under the new
\* name, and with dynamic discovery off it calls none.
C24_SetNameNotifies ==
  [][last'.op = "setMcpServerName" =>
       /\ UNCHANGED <<tools, enabledTools, enabledToolSubscriptions>>
       /\ IF dynamicToolDiscovery.enabled
          THEN /\ \A cb \in Callbacks :
                    last'.notified[cb] =
                      IF cb \in enabledToolSubscriptions THEN 1 ELSE 0
               /\ last'.payload =
                    <<ListToolsOf(tools, enabledTools, mcpServerName')>>
          ELSE /\ last'.notified = NoCalls
               /\ last'.payload = <<>>]_vars

C24_Witness ==
  /\ last.op = "setMcpServerName"
  /\ dynamicToolDiscovery.enabled
  /\ mcpServerName = Alt
  /\ enabledToolSubscriptions = {"cb2"}
  /\ last.notified["cb2"] = 1
  /\ last.notified["cb1"] = 0
  /\ last.payload = <<listTools>>
  /\ Alt \o <<Sep>> \o Echo \in ListedNames(last.payload[1])

-----------------------------------------------------------------------------
(* C22 *)

\* The name an administrative step of McpServer was given.
Administers(op) == last'.op = op
AdminName == last'.request[1].name

\* The mode gate of addTool for a definition.
ModeAllows(definition) ==
  toolsetConfig.mode = "readWrite" \/ definition.readOnlyHint = TRUE

\* C22: in McpServer, addTool on a name that is no key of the mapping throws
\* nothing, leaves the definition and the handler in the mapping under that
\* name, and enables the name exactly when the mode gate allows it; and the
\* constructor, which calls it for each supplied tool, throws nothing.
C22_AddToolRegisters ==
  /\ [][(Administers("addTool") /\ ~MapHas(tools, AdminName)) =>
          /\ last'.error = NoError
          /\ MapHas(tools', AdminName)
          /\ MapValue(tools', AdminName) =
               [definitions |-> ToolDefinition(AdminName), handlers |-> "user"]
          /\ ModeAllows(ToolDefinition(AdminName)) =>
               SetHas(enabledTools', AdminName)
          /\ ~ModeAllows(ToolDefinition(AdminName)) =>
               (SetHas(enabledTools', AdminName)
                  <=> SetHas(enabledTools, AdminName))]_vars
  /\ [](last.op = "constructor" => last.error = NoError)

-----------------------------------------------------------------------------
(* C23 *)

====
